---- MODULE Spec2Model ----
(***************************************************************************)
(* Model of the recipe REST backend: the user views (app/user/views.py),   *)
(* the recipe, tag and ingredient viewsets (app/recipe/views.py) and the   *)
(* router that maps verbs and paths to their actions (app/recipe/urls.py). *)
(* A step is one HTTP request handled to completion, or one row written    *)
(* through the ORM manager as the tests do.  `resp` is the response of the *)
(* last request.                                                           *)
(***************************************************************************)
EXTENDS Naturals, FiniteSets, Sequences, TLC

VARIABLES users, userName, tokens, recipes, tags, ingredients, nextId,
          createdBy, defaultAuth, resp

vars == <<users, userName, tokens, recipes, tags, ingredients, nextId,
          createdBy, defaultAuth, resp>>

stores == <<users, userName, tokens, recipes, tags, ingredients, nextId,
            createdBy, defaultAuth>>

rowStores == <<recipes, tags, ingredients, nextId, createdBy>>

userStores == <<users, userName, tokens>>

(* Bound: rows ever inserted over the three tables (ids are never reused).  *)
MaxRows == 2

(* ------------------------------------------------------------------------ *)
(* Values                                                                   *)
(* ------------------------------------------------------------------------ *)

(* The two accounts of the tests. *)
Emails == {"user@example.com", "user2@example.com"}

UserNames == {"n1", "n2"}

DefaultName == "n1"

(* Ingredient and tag names, and their rank in collation order. *)
Names == {"Kale", "Salt"}

NameRank(n) == IF n = "Kale" THEN 1 ELSE 2

(* A field absent from the request body. *)
Absent == "absent"

NoUser == "anonymous"

NoCred == [type |-> "none", user |-> NoUser]

(* The Authorization header of a request: none, "Token <key of user>" or    *)
(* "Basic <email:password of user>".                                        *)
Creds == {NoCred} \cup [type : {"token", "basic"}, user : Emails]

Kinds == {"recipes", "tags", "ingredients"}

RowIds == 1..MaxRows

(* ------------------------------------------------------------------------ *)
(* Querysets                                                                *)
(* ------------------------------------------------------------------------ *)

(* A queryset is lazy: the rows it selects and the ordering asked for.      *)
All(rows) == [rows |-> rows, ordering |-> "none"]

FilterUser(rows, u) == {r \in rows : r.user = u}

(* queryset.filter(user=u) *)
Filter(qs, u) == [qs EXCEPT !.rows = FilterUser(qs.rows, u)]

(* queryset.order_by(ordering) *)
OrderBy(qs, ordering) == [qs EXCEPT !.ordering = ordering]

(* All the orders in which the rows of S can be returned. *)
Perms(S) ==
  {p \in [1..Cardinality(S) -> S] : \A i, j \in 1..Cardinality(S) : p[i] = p[j] => i = j}

Range(s) == {s[i] : i \in 1..Len(s)}

(* Whether row a may come before row b under the ordering; rows that tie,   *)
(* and rows of a queryset with no ordering, come in any order.              *)
MayPrecede(ordering, a, b) ==
  CASE ordering = "-id" -> a.id > b.id
    [] ordering = "-name" -> NameRank(a.name) >= NameRank(b.name)
    [] OTHER -> TRUE

(* The sequences a queryset may evaluate to. *)
Evaluate(qs) ==
  {p \in Perms(qs.rows) :
     \A i, j \in 1..Cardinality(qs.rows) : i < j => MayPrecede(qs.ordering, p[i], p[j])}

(* ------------------------------------------------------------------------ *)
(* Authentication and permissions (the attributes the views set)            *)
(* ------------------------------------------------------------------------ *)

(* One authentication class on one request: "none" when the header is not   *)
(* of its scheme, "failed" when it is and names no account, else the user.  *)
AuthenticateOne(cls, cred) ==
  IF cls = "TokenAuthentication" /\ cred.type = "token"
    THEN IF cred.user \in tokens THEN [res |-> "user", user |-> cred.user]
                                 ELSE [res |-> "failed", user |-> NoUser]
  ELSE IF cls = "BasicAuthentication" /\ cred.type = "basic"
    THEN IF cred.user \in users THEN [res |-> "user", user |-> cred.user]
                                ELSE [res |-> "failed", user |-> NoUser]
  ELSE [res |-> "none", user |-> NoUser]

(* The classes are tried in order; the first that answers decides. *)
RECURSIVE Authenticate(_, _)
Authenticate(classes, cred) ==
  IF classes = <<>> THEN [res |-> "none", user |-> NoUser]
  ELSE LET a == AuthenticateOne(Head(classes), cred) IN
       IF a.res = "none" THEN Authenticate(Tail(classes), cred) ELSE a

(* A refusal is 401 when the first class sends a WWW-Authenticate header,   *)
(* else 403.                                                                *)
DenyStatus(classes) ==
  IF classes # <<>> /\ Head(classes) \in {"TokenAuthentication", "BasicAuthentication"}
    THEN 401 ELSE 403

(* Authentication, then the permission check, before any handler runs. *)
Initial(classes, permission, cred) ==
  LET a == Authenticate(classes, cred) IN
  IF a.res = "failed" THEN [status |-> DenyStatus(classes), user |-> NoUser]
  ELSE IF permission = "IsAuthenticated" /\ a.res = "none"
    THEN [status |-> DenyStatus(classes), user |-> NoUser]
  ELSE [status |-> 200, user |-> a.user]

(* The project default, used by a view that sets no authentication_classes. *)
DefaultAuthenticationClasses ==
  IF defaultAuth = "TokenAuthentication" THEN <<"TokenAuthentication">>
  ELSE <<"SessionAuthentication", "BasicAuthentication">>

DefaultAuthChoices == {"SessionBasic", "TokenAuthentication"}

RecipeAuthentication == <<"TokenAuthentication">>

RecipePermissionAllowAny == "AllowAny"

RecipePermission == "IsAuthenticated"

(* TagViewSet sets authentication_class, an attribute the framework never   *)
(* reads, so the view falls back on the default classes.                    *)
TagAuthentication == DefaultAuthenticationClasses

TagPermission == "IsAuthenticated"

IngredientAuthentication == <<"TokenAuthentication">>

IngredientPermission == "IsAuthenticated"

ManageUserAuthentication == <<"TokenAuthentication">>

ManageUserPermission == "IsAuthenticated"

(* ------------------------------------------------------------------------ *)
(* Routing: the router maps a verb to an action only if the viewset has it  *)
(* ------------------------------------------------------------------------ *)

RecipeActions == {"list", "create", "retrieve", "update", "partial_update", "destroy"}

TagActionsWithRetrieve == {"update", "partial_update", "destroy", "list", "retrieve"}

TagActions == {"update", "partial_update", "destroy", "list"}

IngredientActions == {"list", "update", "partial_update", "destroy"}

VerbOf(action) ==
  CASE action \in {"list", "retrieve"} -> "GET"
    [] action = "create" -> "POST"
    [] action = "update" -> "PUT"
    [] action = "partial_update" -> "PATCH"
    [] action = "destroy" -> "DELETE"

(* ------------------------------------------------------------------------ *)
(* The querysets of the three viewsets                                      *)
(* ------------------------------------------------------------------------ *)

RecipeGetQuerysetUnfiltered(u) == OrderBy(All(recipes), "-id")

RecipeGetQueryset(u) == OrderBy(Filter(All(recipes), u), "-id")

TagGetQueryset(u) == OrderBy(Filter(All(tags), u), "-name")

IngredientGetQuerysetOthers(u) == All({r \in ingredients : r.user # u})

(* IngredientViewSet defines get_query, which nothing calls: the inherited  *)
(* get_queryset returns queryset.all(), every row, in no stated order.      *)
IngredientGetQueryset(u) == All(ingredients)

RecipePerformCreateFromBody(u, bodyUser) == IF bodyUser = Absent THEN u ELSE bodyUser

(* serializer.save(user=request.user): the keyword overrides the body. *)
RecipePerformCreate(u, bodyUser) == u

(* ------------------------------------------------------------------------ *)
(* The mixins: what an action does to a table, given the view's queryset    *)
(* ------------------------------------------------------------------------ *)

Result(status, body, rows) == [status |-> status, body |-> body, rows |-> rows]

(* get_object: the row of the queryset with this id, if any. *)
Visible(qs, id) == {r \in qs.rows : r.id = id}

TheRow(qs, id) == CHOOSE r \in Visible(qs, id) : TRUE

(* The outcomes of one action on the view's queryset qs; only a list        *)
(* evaluates it in order.                                                   *)
ViewResults(actions, action, qs, rows, id, name, owner, newId) ==
  IF action \notin actions THEN {Result(405, <<>>, rows)}
  ELSE IF action = "list" THEN {Result(200, body, rows) : body \in Evaluate(qs)}
  ELSE IF action = "create" THEN
    IF name = Absent THEN {Result(400, <<>>, rows)}
    ELSE LET new == [id |-> newId, user |-> owner, name |-> name] IN
         {Result(201, <<new>>, rows \cup {new})}
  ELSE IF Visible(qs, id) = {} THEN {Result(404, <<>>, rows)}
  ELSE IF action = "retrieve" THEN {Result(200, <<TheRow(qs, id)>>, rows)}
  ELSE IF action = "destroy" THEN {Result(204, <<>>, rows \ {TheRow(qs, id)})}
  ELSE IF action = "update" /\ name = Absent THEN {Result(400, <<>>, rows)}
  ELSE LET old == TheRow(qs, id)
           new == IF name = Absent THEN old ELSE [old EXCEPT !.name = name] IN
       {Result(200, <<new>>, (rows \ {old}) \cup {new})}

Response(ep, id, action, cred, user, status, body) ==
  [ep |-> ep, id |-> id, verb |-> VerbOf(action), cred |-> cred, user |-> user,
   status |-> status, body |-> body]

NoResponse ==
  [ep |-> "none", id |-> 0, verb |-> "none", cred |-> NoCred, user |-> NoUser,
   status |-> 0, body |-> <<>>]

(* Rows inserted so far, over the three tables. *)
Inserted == (nextId["recipes"] - 1) + (nextId["tags"] - 1) + (nextId["ingredients"] - 1)

CanInsert == Inserted < MaxRows

(* ------------------------------------------------------------------------ *)
(* Initial state: an empty database                                         *)
(* ------------------------------------------------------------------------ *)

Init ==
  /\ users = {}
  /\ userName = [u \in Emails |-> Absent]
  /\ tokens = {}
  /\ recipes = {}
  /\ tags = {}
  /\ ingredients = {}
  /\ nextId = [k \in Kinds |-> 1]
  /\ createdBy = [i \in RowIds |-> NoUser]
  /\ defaultAuth \in DefaultAuthChoices
  /\ resp = NoResponse

(* ------------------------------------------------------------------------ *)
(* User API (app/user/views.py); these two are sent without credentials     *)
(* ------------------------------------------------------------------------ *)

(* POST /api/user/create/ : AllowAny; an email already taken is a 400. *)
CreateUserViews(email, name) ==
  /\ IF email \in users
       THEN /\ resp' = Response("user/create", 0, "create", NoCred, NoUser, 400, <<>>)
            /\ UNCHANGED userStores
       ELSE /\ users' = users \cup {email}
            /\ userName' = [userName EXCEPT ![email] = name]
            /\ resp' = Response("user/create", 0, "create", NoCred, NoUser, 201,
                                <<[email |-> email, name |-> name]>>)
            /\ UNCHANGED tokens
  /\ UNCHANGED <<rowStores, defaultAuth>>

(* POST /api/user/token/ : AllowAny; the body carries email and password. *)
CreateTokenView(email, passwordOk) ==
  /\ IF email \in users /\ passwordOk
       THEN /\ tokens' = tokens \cup {email}
            /\ resp' = Response("user/token", 0, "create", NoCred, NoUser, 200,
                                <<[token |-> email]>>)
       ELSE /\ resp' = Response("user/token", 0, "create", NoCred, NoUser, 400, <<>>)
            /\ UNCHANGED tokens
  /\ UNCHANGED <<users, userName, rowStores, defaultAuth>>

ManageUserGetObjectFirst(u) == CHOOSE v \in users : TRUE

(* get_object: the authenticated user. *)
ManageUserGetObject(u) == u

UserRecord(u) == [email |-> u, name |-> userName[u]]

(* GET /api/user/me/ *)
ManageUserRetrieve(cred) ==
  LET a == Initial(ManageUserAuthentication, ManageUserPermission, cred) IN
  /\ IF a.status # 200
       THEN resp' = Response("user/me", 0, "retrieve", cred, NoUser, a.status, <<>>)
       ELSE resp' = Response("user/me", 0, "retrieve", cred, a.user, 200,
                             <<UserRecord(ManageUserGetObject(a.user))>>)
  /\ UNCHANGED stores

(* PATCH /api/user/me/ *)
ManageUserPartialUpdate(cred, name) ==
  LET a == Initial(ManageUserAuthentication, ManageUserPermission, cred) IN
  /\ IF a.status # 200
       THEN /\ resp' = Response("user/me", 0, "partial_update", cred, NoUser, a.status, <<>>)
            /\ UNCHANGED userName
       ELSE LET obj == ManageUserGetObject(a.user)
                new == IF name = Absent THEN userName[obj] ELSE name IN
            /\ userName' = [userName EXCEPT ![obj] = new]
            /\ resp' = Response("user/me", 0, "partial_update", cred, a.user, 200,
                                <<[email |-> obj, name |-> new]>>)
  /\ UNCHANGED <<users, tokens, rowStores, defaultAuth>>

(* ------------------------------------------------------------------------ *)
(* Recipe API (app/recipe/views.py), one request on one viewset             *)
(* ------------------------------------------------------------------------ *)

RecipeRequest(cred, action, id, name, bodyUser) ==
  LET a == Initial(RecipeAuthentication, RecipePermission, cred) IN
  /\ IF a.status # 200
       THEN /\ resp' = Response("recipes", id, action, cred, NoUser, a.status, <<>>)
            /\ UNCHANGED <<recipes, nextId, createdBy>>
       ELSE \E r \in ViewResults(RecipeActions, action, RecipeGetQueryset(a.user), recipes,
                                  id, name, RecipePerformCreate(a.user, bodyUser),
                                  nextId["recipes"]) :
              /\ r.status = 201 => CanInsert
              /\ recipes' = r.rows
              /\ nextId' = IF r.status = 201
                             THEN [nextId EXCEPT !["recipes"] = @ + 1] ELSE nextId
              /\ createdBy' = IF r.status = 201
                                THEN [createdBy EXCEPT ![nextId["recipes"]] = a.user]
                                ELSE createdBy
              /\ resp' = Response("recipes", id, action, cred, a.user, r.status, r.body)
  /\ UNCHANGED <<userStores, tags, ingredients, defaultAuth>>

TagRequest(cred, action, id, name) ==
  LET a == Initial(TagAuthentication, TagPermission, cred) IN
  /\ IF a.status # 200
       THEN /\ resp' = Response("tags", id, action, cred, NoUser, a.status, <<>>)
            /\ UNCHANGED tags
       ELSE \E r \in ViewResults(TagActions, action, TagGetQueryset(a.user), tags,
                                  id, name, NoUser, nextId["tags"]) :
              /\ tags' = r.rows
              /\ resp' = Response("tags", id, action, cred, a.user, r.status, r.body)
  /\ UNCHANGED <<userStores, recipes, ingredients, nextId, createdBy, defaultAuth>>

IngredientRequest(cred, action, id, name) ==
  LET a == Initial(IngredientAuthentication, IngredientPermission, cred) IN
  /\ IF a.status # 200
       THEN /\ resp' = Response("ingredients", id, action, cred, NoUser, a.status, <<>>)
            /\ UNCHANGED ingredients
       ELSE \E r \in ViewResults(IngredientActions, action, IngredientGetQueryset(a.user),
                                  ingredients, id, name, NoUser, nextId["ingredients"]) :
              /\ ingredients' = r.rows
              /\ resp' = Response("ingredients", id, action, cred, a.user, r.status, r.body)
  /\ UNCHANGED <<userStores, recipes, tags, nextId, createdBy, defaultAuth>>

(* ------------------------------------------------------------------------ *)
(* The routes of the router (app/recipe/urls.py)                            *)
(* ------------------------------------------------------------------------ *)

(* GET /api/recipe/recipes/ *)
RecipeList(cred) == RecipeRequest(cred, "list", 0, Absent, Absent)

(* POST /api/recipe/recipes/ *)
RecipeCreate(cred, name, bodyUser) == RecipeRequest(cred, "create", 0, name, bodyUser)

(* GET /api/recipe/recipes/<id>/ *)
RecipeRetrieve(cred, id) == RecipeRequest(cred, "retrieve", id, Absent, Absent)

(* PUT and PATCH /api/recipe/recipes/<id>/ *)
RecipeUpdate(cred, action, id, name) == RecipeRequest(cred, action, id, name, Absent)

(* DELETE /api/recipe/recipes/<id>/ *)
RecipeDestroy(cred, id) == RecipeRequest(cred, "destroy", id, Absent, Absent)

(* GET /api/recipe/tags/ *)
TagList(cred) == TagRequest(cred, "list", 0, Absent)

(* POST /api/recipe/tags/ *)
TagCreate(cred, name) == TagRequest(cred, "create", 0, name)

(* GET /api/recipe/tags/<id>/ *)
TagRetrieve(cred, id) == TagRequest(cred, "retrieve", id, Absent)

(* PUT and PATCH /api/recipe/tags/<id>/ *)
TagUpdate(cred, action, id, name) == TagRequest(cred, action, id, name)

(* DELETE /api/recipe/tags/<id>/ *)
TagDestroy(cred, id) == TagRequest(cred, "destroy", id, Absent)

(* GET /api/recipe/ingredients/ *)
IngredientList(cred) == IngredientRequest(cred, "list", 0, Absent)

(* POST /api/recipe/ingredients/ *)
IngredientCreate(cred, name) == IngredientRequest(cred, "create", 0, name)

(* GET /api/recipe/ingredients/<id>/ *)
IngredientRetrieve(cred, id) == IngredientRequest(cred, "retrieve", id, Absent)

(* PUT and PATCH /api/recipe/ingredients/<id>/ *)
IngredientUpdate(cred, action, id, name) == IngredientRequest(cred, action, id, name)

(* DELETE /api/recipe/ingredients/<id>/ *)
IngredientDestroy(cred, id) == IngredientRequest(cred, "destroy", id, Absent)

(* ------------------------------------------------------------------------ *)
(* Rows written through the ORM manager, as the tests' fixtures do          *)
(* ------------------------------------------------------------------------ *)

NewRow(kind, user, name) == [id |-> nextId[kind], user |-> user, name |-> name]

(* Ingredient.objects.create(user=..., name=...) *)
IngredientObjectsCreate(user, name) ==
  /\ user \in users
  /\ CanInsert
  /\ ingredients' = ingredients \cup {NewRow("ingredients", user, name)}
  /\ nextId' = [nextId EXCEPT !["ingredients"] = @ + 1]
  /\ resp' = NoResponse
  /\ UNCHANGED <<userStores, recipes, tags, createdBy, defaultAuth>>

(* Tag.objects.create(user=..., name=...) *)
TagObjectsCreate(user, name) ==
  /\ user \in users
  /\ CanInsert
  /\ tags' = tags \cup {NewRow("tags", user, name)}
  /\ nextId' = [nextId EXCEPT !["tags"] = @ + 1]
  /\ resp' = NoResponse
  /\ UNCHANGED <<userStores, recipes, ingredients, createdBy, defaultAuth>>

(* Recipe.objects.create(user=..., title=...) *)
RecipeObjectsCreate(user, name) ==
  /\ user \in users
  /\ CanInsert
  /\ recipes' = recipes \cup {NewRow("recipes", user, name)}
  /\ createdBy' = [createdBy EXCEPT ![nextId["recipes"]] = user]
  /\ nextId' = [nextId EXCEPT !["recipes"] = @ + 1]
  /\ resp' = NoResponse
  /\ UNCHANGED <<userStores, tags, ingredients, defaultAuth>>

(* ------------------------------------------------------------------------ *)
(* Specifications                                                           *)
(* ------------------------------------------------------------------------ *)

BodyNames == Names \cup {Absent}

UpdateActions == {"update", "partial_update"}

Accounts(ns) ==
  \/ \E e \in Emails, n \in ns : CreateUserViews(e, n)
  \/ \E e \in Emails, ok \in BOOLEAN : CreateTokenView(e, ok)

ManageUser ==
  \/ \E c \in Creds : ManageUserRetrieve(c)
  \/ \E c \in Creds, n \in UserNames \cup {Absent} : ManageUserPartialUpdate(c, n)

RecipeCollectionRoutes(cs) ==
  \/ \E c \in cs : RecipeList(c)
  \/ \E c \in cs, n \in BodyNames, b \in Emails \cup {Absent} : RecipeCreate(c, n, b)

RecipeDetailRoutes(cs) ==
  \/ \E c \in cs, i \in RowIds : RecipeRetrieve(c, i)
  \/ \E c \in cs, a \in UpdateActions, i \in RowIds, n \in BodyNames : RecipeUpdate(c, a, i, n)
  \/ \E c \in cs, i \in RowIds : RecipeDestroy(c, i)

RecipeRoutes(cs) == RecipeCollectionRoutes(cs) \/ RecipeDetailRoutes(cs)

TagCollectionRoutes(cs) ==
  \/ \E c \in cs : TagList(c)
  \/ \E c \in cs, n \in BodyNames : TagCreate(c, n)

TagDetailRoutes(cs) ==
  \/ \E c \in cs, i \in RowIds : TagRetrieve(c, i)
  \/ \E c \in cs, a \in UpdateActions, i \in RowIds, n \in BodyNames : TagUpdate(c, a, i, n)
  \/ \E c \in cs, i \in RowIds : TagDestroy(c, i)

TagRoutes(cs) == TagCollectionRoutes(cs) \/ TagDetailRoutes(cs)

IngredientCollectionRoutes(cs) ==
  \/ \E c \in cs : IngredientList(c)
  \/ \E c \in cs, n \in BodyNames : IngredientCreate(c, n)

IngredientDetailRoutes(cs) ==
  \/ \E c \in cs, i \in RowIds : IngredientRetrieve(c, i)
  \/ \E c \in cs, a \in UpdateActions, i \in RowIds, n \in BodyNames :
       IngredientUpdate(c, a, i, n)
  \/ \E c \in cs, i \in RowIds : IngredientDestroy(c, i)

IngredientRoutes(cs) == IngredientCollectionRoutes(cs) \/ IngredientDetailRoutes(cs)

Fixtures(ns) ==
  \/ \E u \in Emails, n \in ns : IngredientObjectsCreate(u, n)
  \/ \E u \in Emails, n \in ns : TagObjectsCreate(u, n)
  \/ \E u \in Emails, n \in ns : RecipeObjectsCreate(u, n)

(* Every client, every endpoint. *)
Next ==
  \/ Accounts(UserNames)
  \/ ManageUser
  \/ RecipeRoutes(Creds)
  \/ TagRoutes(Creds)
  \/ IngredientRoutes(Creds)
  \/ Fixtures(Names)

Spec == Init /\ [][Next]_vars

(* The user API alone. *)
NextUser == Accounts(UserNames) \/ ManageUser

SpecUser == Init /\ [][NextUser]_vars

(* Accounts and the recipe endpoints. *)
NextRecipe == Accounts({DefaultName}) \/ RecipeRoutes(Creds)

SpecRecipe == Init /\ [][NextRecipe]_vars

(* Accounts, tag rows and the tag endpoints. *)
NextTag ==
  \/ Accounts({DefaultName})
  \/ \E u \in Emails, n \in Names : TagObjectsCreate(u, n)
  \/ TagRoutes(Creds)

SpecTag == Init /\ [][NextTag]_vars

(* Accounts, ingredient rows and the ingredient endpoints. *)
NextIngredient ==
  \/ Accounts({DefaultName})
  \/ \E u \in Emails, n \in Names : IngredientObjectsCreate(u, n)
  \/ IngredientRoutes(Creds)

SpecIngredient == Init /\ [][NextIngredient]_vars

(* A client that never sends credentials, on every endpoint, over rows      *)
(* written by fixtures.                                                     *)
NextPublic ==
  \/ Accounts({DefaultName})
  \/ Fixtures({"Kale"})
  \/ ManageUserRetrieve(NoCred)
  \/ \E n \in UserNames \cup {Absent} : ManageUserPartialUpdate(NoCred, n)
  \/ RecipeRoutes({NoCred})
  \/ TagRoutes({NoCred})
  \/ IngredientRoutes({NoCred})

SpecPublic == Init /\ [][NextPublic]_vars

(* Both accounts registered and holding a token, as after the setUp of the  *)
(* authenticated tests; tag and ingredient rows, and clients that send      *)
(* credentials to the detail URLs of tags and ingredients.                  *)
InitPrivate ==
  /\ users = Emails
  /\ userName = [u \in Emails |-> DefaultName]
  /\ tokens = Emails
  /\ recipes = {}
  /\ tags = {}
  /\ ingredients = {}
  /\ nextId = [k \in Kinds |-> 1]
  /\ createdBy = [i \in RowIds |-> NoUser]
  /\ defaultAuth \in DefaultAuthChoices
  /\ resp = NoResponse

NextNamed ==
  \/ \E u \in Emails, n \in Names : TagObjectsCreate(u, n)
  \/ \E u \in Emails, n \in Names : IngredientObjectsCreate(u, n)
  \/ TagDetailRoutes(Creds \ {NoCred})
  \/ IngredientDetailRoutes(Creds \ {NoCred})

SpecNamed == InitPrivate /\ [][NextNamed]_vars

(* ------------------------------------------------------------------------ *)
(* Properties                                                               *)
(* ------------------------------------------------------------------------ *)

Table(ep) ==
  IF ep = "recipes" THEN recipes ELSE IF ep = "tags" THEN tags ELSE ingredients

TableNext(ep) ==
  IF ep = "recipes" THEN recipes' ELSE IF ep = "tags" THEN tags' ELSE ingredients'

Protected == {"user/me", "recipes", "tags", "ingredients"}

IsListResponse(r, ep) == r.ep = ep /\ r.verb = "GET" /\ r.id = 0 /\ r.status = 200

Authenticated(r) == r.user # NoUser

(* C1: a list response on recipes, tags or ingredients holds only rows      *)
(* owned by the user who asked.                                             *)
C1_ListsOnlyOwn ==
  \A ep \in Kinds :
    IsListResponse(resp, ep) =>
      \A i \in 1..Len(resp.body) : resp.body[i].user = resp.user

(* C2, as stated: a request without credentials to any endpoint is answered *)
(* 401 and changes nothing stored.                                          *)
C2_AnonymousAlways401 ==
  [][(resp'.ep # "none" /\ resp'.cred = NoCred)
       => (resp'.status = 401 /\ UNCHANGED stores)]_vars

(* C2, amended: without credentials, user/me, recipes and ingredients       *)
(* answer 401, tags answer 401 under token default authentication and 403   *)
(* otherwise, all four leaving every store unchanged; user/create and       *)
(* user/token are open: they never answer 401 and leave the rows unchanged. *)
C2_AnonymousRefusedOnProtected ==
  [][(resp'.ep # "none" /\ resp'.cred = NoCred) =>
       /\ resp'.ep \in {"user/me", "recipes", "ingredients"}
            => (resp'.status = 401 /\ UNCHANGED stores)
       /\ resp'.ep = "tags"
            => /\ resp'.status = IF defaultAuth = "TokenAuthentication" THEN 401 ELSE 403
               /\ UNCHANGED stores
       /\ resp'.ep \in {"user/create", "user/token"}
            => (resp'.status \in {200, 201, 400} /\ UNCHANGED rowStores)]_vars

C2_Witness ==
  /\ resp.ep = "recipes" /\ resp.verb = "DELETE" /\ resp.cred = NoCred
  /\ resp.status = 401
  /\ \E r \in recipes : r.id = resp.id
  /\ tags # {}
  /\ users = Emails

(* C3: a PUT, PATCH or DELETE by an authenticated user on a row of another  *)
(* user is answered 404, and no such request changes or removes a row of    *)
(* another user.                                                            *)
C3_NonOwnerCannotMutate ==
  [][(resp'.ep \in Kinds /\ resp'.verb \in {"PUT", "PATCH", "DELETE"} /\ Authenticated(resp'))
       => \A r \in Table(resp'.ep) :
            r.user # resp'.user =>
              /\ r \in TableNext(resp'.ep)
              /\ r.id = resp'.id => resp'.status = 404]_vars

(* C4: a request bearing the token issued to U is handled as U on every     *)
(* protected endpoint.                                                      *)
C4_TokenAcceptedEverywhere ==
  (resp.ep \in Protected /\ resp.cred.type = "token" /\ resp.cred.user \in tokens)
    => resp.user = resp.cred.user

(* C5: the ingredients list comes back in descending order of name.         *)
C5_IngredientsDescendingByName ==
  IsListResponse(resp, "ingredients") =>
    \A i \in 1..Len(resp.body) :
      i < Len(resp.body) => NameRank(resp.body[i].name) >= NameRank(resp.body[i + 1].name)

(* C6, as stated: a POST by an authenticated user on the ingredients        *)
(* collection succeeds (a body without a name aside).                       *)
C6_PostCreatesIngredient ==
  (resp.ep = "ingredients" /\ resp.verb = "POST" /\ Authenticated(resp))
    => resp.status \in {201, 400}

(* C6, amended: a POST by an authenticated user on the ingredients          *)
(* collection is answered 405 and inserts nothing; an ingredient of U that  *)
(* is stored is in every list response U gets, until it is deleted.         *)
C6_StoredIngredientListed ==
  [][/\ (resp'.ep = "ingredients" /\ resp'.verb = "POST" /\ Authenticated(resp'))
          => (resp'.status = 405 /\ ingredients' = ingredients)
     /\ IsListResponse(resp', "ingredients")
          => \A r \in ingredients' : r.user = resp'.user => r \in Range(resp'.body)]_vars

C6_Witness ==
  /\ IsListResponse(resp, "ingredients")
  /\ \E r \in ingredients : r.user = resp.user /\ r \in Range(resp.body)
  /\ nextId["ingredients"] > Cardinality(ingredients) + 1

(* C7, as stated: a GET by the owner on the detail URL of an existing tag   *)
(* or ingredient is answered 200.                                           *)
C7_DetailGetReturns200 ==
  (/\ resp.ep \in {"tags", "ingredients"} /\ resp.verb = "GET" /\ resp.id # 0
   /\ Authenticated(resp)
   /\ \E r \in Table(resp.ep) : r.id = resp.id /\ r.user = resp.user)
    => resp.status = 200

(* C7, amended: on the detail URL of an existing tag or ingredient of the   *)
(* authenticated requester, GET is answered 405 and changes nothing, PUT is *)
(* answered 200 (400 without a name), PATCH 200, and DELETE 204, removing   *)
(* the row.                                                                 *)
C7_DetailVerbs ==
  [][(resp'.ep \in {"tags", "ingredients"} /\ resp'.id # 0 /\ Authenticated(resp'))
       => \A r \in Table(resp'.ep) :
            (r.id = resp'.id /\ r.user = resp'.user) =>
              /\ resp'.verb = "GET" => (resp'.status = 405 /\ UNCHANGED stores)
              /\ resp'.verb = "PUT" => resp'.status \in {200, 400}
              /\ resp'.verb = "PATCH" => resp'.status = 200
              /\ resp'.verb = "DELETE"
                   => (resp'.status = 204 /\ r \notin TableNext(resp'.ep))]_vars

C7_Witness ==
  /\ resp.ep = "tags" /\ resp.verb = "GET" /\ resp.id # 0 /\ resp.status = 405
  /\ \E r \in tags : r.id = resp.id /\ r.user = resp.user
  /\ ingredients # {}

(* C8: every stored recipe is owned by the user whose request created it,   *)
(* and a successful POST adds rows to the requester's recipes only.         *)
C8_RecipeOwnerIsCreator ==
  /\ [](\A r \in recipes : r.user = createdBy[r.id])
  /\ [][(resp'.ep = "recipes" /\ resp'.verb = "POST" /\ resp'.status = 201) =>
          /\ \A r \in recipes' \ recipes : r.user = resp'.user
          /\ \A u \in Emails \ {resp'.user} :
               FilterUser(recipes', u) = FilterUser(recipes, u)]_vars

C8_Witness ==
  /\ resp.ep = "recipes" /\ resp.verb = "POST" /\ resp.status = 201
  /\ \E r1, r2 \in recipes : r1.user # r2.user

(* C9: GET and PATCH on user/me answer with the requester's own record and  *)
(* change no other user's record.                                           *)
C9_MeActsOnRequester ==
  [][(resp'.ep = "user/me" /\ Authenticated(resp')) =>
       /\ resp'.body = <<[email |-> resp'.user, name |-> userName'[resp'.user]]>>
       /\ \A u \in Emails \ {resp'.user} : userName'[u] = userName[u]
       /\ resp'.verb = "GET" => userName' = userName
       /\ UNCHANGED <<users, tokens, rowStores>>]_vars

C9_Witness ==
  /\ resp.ep = "user/me" /\ resp.verb = "PATCH" /\ resp.status = 200
  /\ users = Emails
  /\ \E u \in Emails : u # resp.user /\ userName[u] # userName[resp.user]

(* C10: the recipes list is exactly the requester's recipes, each once, in  *)
(* strictly descending order of id.                                         *)
C10_RecipesListExactDescending ==
  IsListResponse(resp, "recipes") =>
    /\ Range(resp.body) = FilterUser(recipes, resp.user)
    /\ Len(resp.body) = Cardinality(FilterUser(recipes, resp.user))
    /\ \A i \in 1..Len(resp.body) :
         i < Len(resp.body) => resp.body[i].id > resp.body[i + 1].id

C10_Witness ==
  /\ IsListResponse(resp, "recipes")
  /\ Len(resp.body) >= 2

====
